---- MODULE Spec2Model ----
(***************************************************************************)
(* Model of the concurrent upload load generator in src/main.go: the       *)
(* driver (main), the launcher loop with its semaphore channel and         *)
(* WaitGroup, the worker goroutines (makeRequest, pacing sleep, permit     *)
(* release), the mutex-guarded RequestStats, the corpus loader and the     *)
(* report stage.                                                           *)
(***************************************************************************)
EXTENDS Integers, Sequences, FiniteSets, TLC

\* ---------------------------------------------------------------- bounds
MaxRequests == 3
MaxConcurrency == 2
MaxFiles == 2

\* ------------------------------------------------------ program constants
StatusOK == 200

\* Status codes a response may carry: 200, another 2xx, a server error.
Statuses == {200, 201, 500}
\* Durations a successful request may measure.
Durations == {1, 2}

\* A uint64 is four 16-bit limbs, least significant first.
LimbBase == 2 ^ 16
Limbs == 4
U64(n) == <<n, 0, 0, 0>>
U64Zero == U64(0)
\* Values the memory sampler may report after the run, and before it.
MemValues == {U64(1), U64(3)}
InitialMemValues == {U64(2)}

RECURSIVE SubLimbs(_, _, _, _)
SubLimbs(a, b, k, borrow) ==
  IF k > Limbs THEN <<>>
  ELSE LET d == a[k] - b[k] - borrow IN
    <<d % LimbBase>> \o SubLimbs(a, b, k + 1, IF d < 0 THEN 1 ELSE 0)

\* a < b as unsigned 64-bit values: decided at the highest limb that differs.
LessUint64(a, b) ==
  \E k \in 1..Limbs :
    /\ a[k] < b[k]
    /\ \A j \in (k + 1)..Limbs : a[j] = b[j]

\* Mutant: a difference that stops at zero instead of wrapping.
SubUint64Saturating(a, b) ==
  IF LessUint64(a, b) THEN U64Zero ELSE SubLimbs(a, b, 1, 0)

\* a - b in unsigned 64-bit arithmetic.
SubUint64(a, b) == SubLimbs(a, b, 1, 0)

VARIABLES
  totalRequests,      \* main: totalRequests
  concurrentRequests, \* main: concurrentRequests (capacity of semaphore)
  mainPc,             \* position of main
  i,                  \* main: loop variable
  initialMemory, finalMemory, memoryDifference,
  images, imageNames, \* main: the loaded corpus
  successCount, failureCount, totalTime, \* RequestStats fields
  mutex,              \* RequestStats.mutex: TRUE when locked
  wg,                 \* WaitGroup counter
  semaphore,          \* number of elements buffered in the semaphore channel
  units,              \* the spawned goroutines, in spawn order
  requestsSent,       \* number of client.Do calls made
  reportLines,        \* number of report lines printed
  meanTime,           \* the printed mean request time
  durationsPassed     \* history: sum of the durations passed to addSuccess

vars == <<totalRequests, concurrentRequests, mainPc, i, initialMemory, finalMemory,
          memoryDifference, images, imageNames, successCount, failureCount,
          totalTime, mutex, wg, semaphore, units, requestsSent, reportLines, meanTime,
          durationsPassed>>

\* ------------------------------------------------------------ file names
\* A file name is a sequence of one-character strings.
JpgA == <<"a", ".", "j", "p", "g">>
PngB == <<"b", ".", "p", "n", "g">>
JpegC == <<"c", ".", "j", "p", "e", "g">>
TxtD == <<"d", ".", "t", "x", "t">>
UpperJpg == <<"D", ".", "J", "P", "G">>
JpgF == <<"f", ".", "j", "p", "g">>
NoExt == <<"g">>

\* filepath.Ext: the suffix beginning at the final dot of the final path element.
RECURSIVE ExtFrom(_, _)
ExtFrom(name, k) ==
  IF k < 1 THEN <<>>
  ELSE IF name[k] = "/" THEN <<>>
  ELSE IF name[k] = "." THEN SubSeq(name, k, Len(name))
  ELSE ExtFrom(name, k - 1)

Ext(name) == ExtFrom(name, Len(name))

EligibleExt(ext) ==
  ~ (ext # <<".", "j", "p", "g">> /\ ext # <<".", "j", "p", "e", "g">>
       /\ ext # <<".", "p", "n", "g">>)

\* The entries a folder may hold, in the byte order os.ReadDir returns them.
DirEntries == <<
  [name |-> UpperJpg, isDir |-> FALSE, readable |-> TRUE,  data |-> 10],
  [name |-> JpgA,     isDir |-> FALSE, readable |-> TRUE,  data |-> 11],
  [name |-> PngB,     isDir |-> FALSE, readable |-> TRUE,  data |-> 12],
  [name |-> JpegC,    isDir |-> FALSE, readable |-> FALSE, data |-> 13],
  [name |-> TxtD,     isDir |-> FALSE, readable |-> TRUE,  data |-> 14],
  [name |-> JpgF,     isDir |-> TRUE,  readable |-> FALSE, data |-> 0],
  [name |-> NoExt,    isDir |-> FALSE, readable |-> TRUE,  data |-> 17] >>

RECURSIVE Pick(_, _)
\* The entries of DirEntries whose index is in S, in order, from index k on.
Pick(S, k) ==
  IF k > Len(DirEntries) THEN <<>>
  ELSE IF k \in S THEN <<DirEntries[k]>> \o Pick(S, k + 1)
  ELSE Pick(S, k + 1)

\* What os.ReadDir may return: an error, or a sorted listing of at most MaxFiles.
Folders ==
  {[err |-> TRUE, files |-> <<>>]} \cup
  {[err |-> FALSE, files |-> Pick(S, 1)] :
     S \in {T \in SUBSET (1..Len(DirEntries)) : Cardinality(T) <= MaxFiles}}

RECURSIVE LoadLoop(_, _, _, _)
LoadLoop(files, k, imgs, names) ==
  IF k > Len(files) THEN [images |-> imgs, imageNames |-> names]
  ELSE LET file == files[k] IN
    IF file.isDir THEN LoadLoop(files, k + 1, imgs, names)
    ELSE IF ~ EligibleExt(Ext(file.name)) THEN LoadLoop(files, k + 1, imgs, names)
    ELSE IF ~ file.readable THEN LoadLoop(files, k + 1, imgs, names)
    ELSE LoadLoop(files, k + 1, Append(imgs, file.data), Append(names, file.name))

\* Mutant: an empty corpus is returned without an error.
loadImagesFromFolderUnchecked(folder) ==
  IF folder.err THEN [images |-> <<>>, imageNames |-> <<>>, err |-> TRUE]
  ELSE LET r == LoadLoop(folder.files, 1, <<>>, <<>>) IN
    [images |-> r.images, imageNames |-> r.imageNames, err |-> FALSE]

loadImagesFromFolder(folder) ==
  IF folder.err THEN [images |-> <<>>, imageNames |-> <<>>, err |-> TRUE]
  ELSE LET r == LoadLoop(folder.files, 1, <<>>, <<>>) IN
    IF Len(r.images) = 0 THEN [images |-> <<>>, imageNames |-> <<>>, err |-> TRUE]
    ELSE [images |-> r.images, imageNames |-> r.imageNames, err |-> FALSE]

\* What getContainerMemoryUsage may return, after the run and before it.
MemResults ==
  {[usage |-> U64Zero, err |-> TRUE]} \cup {[usage |-> m, err |-> FALSE] : m \in MemValues}
InitialMemResults ==
  {[usage |-> U64Zero, err |-> TRUE]}
  \cup {[usage |-> m, err |-> FALSE] : m \in InitialMemValues}

\* --------------------------------------------------------------- helpers
\* The process runs until main returns or panics; its goroutines end with it.
Alive == mainPc \notin {"abortInitialMemory", "abortLoad", "abortFinalMemory",
                        "done", "panic"}

Unit(u) == units[u]
UnitIds == 1..Len(units)

\* Positions at which a goroutine holds the permit it was spawned with.
HoldingPcs == {"spawned", "inFlight", "addSuccess", "addFailure", "succLocked", "succLoaded",
               "succCounted", "timeLoaded", "failLocked", "failLoaded", "unlock",
               "return", "sleep", "release"}
\* Positions inside makeRequest.
InMakeRequestPcs == {"spawned", "inFlight", "addSuccess", "addFailure", "succLocked",
                     "succLoaded", "succCounted", "timeLoaded", "failLocked",
                     "failLoaded", "unlock", "return"}
\* Positions between stats.mutex.Lock() and the deferred stats.mutex.Unlock().
LockedPcs == {"succLocked", "succLoaded", "succCounted", "timeLoaded", "failLocked",
              "failLoaded", "unlock"}

ExitPaths == {"formFileErr", "writeErr", "newRequestErr", "doErr", "response"}

SetPc(u, p) == [units EXCEPT ![u].pc = p]

\* makeRequest has met no result yet: err is nil and resp is not set.
NoResult == [err |-> FALSE, status |-> 0]

Init ==
  /\ totalRequests \in 0..MaxRequests
  /\ concurrentRequests \in 0..MaxConcurrency
  /\ mainPc = "initialMemory"
  /\ i = 0
  /\ initialMemory = U64Zero
  /\ finalMemory = U64Zero
  /\ memoryDifference = U64Zero
  /\ images = <<>>
  /\ imageNames = <<>>
  /\ successCount = 0
  /\ failureCount = 0
  /\ totalTime = 0
  /\ mutex = FALSE
  /\ wg = 0
  /\ semaphore = 0
  /\ units = <<>>
  /\ requestsSent = 0
  /\ reportLines = 0
  /\ meanTime = 0
  /\ durationsPassed = 0

\* ------------------------------------------------------------------ main
\* main, line 175: the initial memory sample.
MainInitialMemory ==
  /\ mainPc = "initialMemory"
  /\ \E r \in InitialMemResults :
       IF r.err
       THEN /\ mainPc' = "abortInitialMemory"
            /\ UNCHANGED initialMemory
       ELSE /\ mainPc' = "load"
            /\ initialMemory' = r.usage
  /\ UNCHANGED <<durationsPassed, totalRequests,
                 concurrentRequests, i, finalMemory, memoryDifference,
                 images, imageNames, successCount, failureCount, totalTime, mutex,
                 wg, semaphore, units, requestsSent, reportLines, meanTime>>

\* main, line 181: load the corpus.
MainLoad ==
  /\ mainPc = "load"
  /\ \E folder \in Folders :
       LET r == loadImagesFromFolder(folder) IN
       IF r.err
       THEN /\ mainPc' = "abortLoad"
            /\ UNCHANGED <<images, imageNames>>
       ELSE /\ mainPc' = "loop"
            /\ images' = r.images
            /\ imageNames' = r.imageNames
  /\ UNCHANGED <<durationsPassed, totalRequests,
                 concurrentRequests, i, initialMemory, finalMemory,
                 memoryDifference, successCount, failureCount, totalTime, mutex,
                 wg, semaphore, units, requestsSent, reportLines, meanTime>>

\* Mutant: the loop runs once too often.
LoopCondInclusive(k, n) == k <= n

\* The loop condition of line 196.
LoopCond(k, n) == k < n

\* Mutant: the launcher does not add to the WaitGroup before it starts the
\* goroutine.
MainLoopAddMissing ==
  /\ mainPc = "loop"
  /\ IF LoopCond(i, totalRequests)
     THEN mainPc' = "acquire"
     ELSE mainPc' = "wait"
  /\ UNCHANGED <<durationsPassed, totalRequests,
                 concurrentRequests, i, initialMemory, finalMemory,
                 memoryDifference, images, imageNames, successCount, failureCount,
                 totalTime, mutex, wg, semaphore, units, requestsSent, reportLines,
                 meanTime>>

\* main, lines 196-197: the loop test and wg.Add(1), or leaving the loop.
MainLoop ==
  /\ mainPc = "loop"
  /\ IF LoopCond(i, totalRequests)
     THEN /\ wg' = wg + 1
          /\ mainPc' = "acquire"
     ELSE /\ mainPc' = "wait"
          /\ UNCHANGED wg
  /\ UNCHANGED <<durationsPassed, totalRequests,
                 concurrentRequests, i, initialMemory, finalMemory,
                 memoryDifference, images, imageNames, successCount, failureCount,
                 totalTime, mutex, semaphore, units, requestsSent, reportLines,
                 meanTime>>

\* Mutant: a send on a channel of capacity 0 proceeds with no receiver.
CanSendUnbuffered(n, cap) == n < cap \/ cap = 0

\* Mutant: the channel takes one element more than its capacity.
CanSendOneMore(n, cap) == n <= cap

\* A send on a channel of capacity cap holding n elements proceeds when there
\* is room (no receiver ever waits on the semaphore).
CanSend(n, cap) == n < cap


\* Mutant: the launcher does not wait for room in the channel.
MainAcquireNonBlocking ==
  /\ mainPc = "acquire"
  /\ semaphore' = IF CanSend(semaphore, concurrentRequests)
                  THEN semaphore + 1 ELSE semaphore
  /\ mainPc' = "spawn"
  /\ UNCHANGED <<durationsPassed, totalRequests,
                 concurrentRequests, i, initialMemory, finalMemory,
                 memoryDifference, images, imageNames, successCount, failureCount,
                 totalTime, mutex, wg, units, requestsSent, reportLines, meanTime>>

\* main, line 198: semaphore <- struct{}{}.
MainAcquire ==
  /\ mainPc = "acquire"
  /\ CanSend(semaphore, concurrentRequests)
  /\ semaphore' = semaphore + 1
  /\ mainPc' = "spawn"
  /\ UNCHANGED <<durationsPassed, totalRequests,
                 concurrentRequests, i, initialMemory, finalMemory,
                 memoryDifference, images, imageNames, successCount, failureCount,
                 totalTime, mutex, wg, units, requestsSent, reportLines, meanTime>>

\* Mutant: the index is clamped to the last element instead of cycling.
ImageIndexClamped(k, n) == IF k < n THEN k ELSE n - 1

\* Line 200: imageIndex := i % len(images).
ImageIndex(k, n) == k % n

\* Mutant: the goroutine reads the loop variable of the previous iteration.
NewUnitStale(k) ==
  LET imageIndex == k % Len(images) IN
  [pc |-> "spawned", requestNum |-> IF k > 0 THEN k - 1 ELSE 0,
   imageData |-> images[imageIndex + 1], imageName |-> imageNames[imageIndex + 1],
   result |-> NoResult, duration |-> 0, loaded |-> 0,
   addSuccessCalls |-> 0, addFailureCalls |-> 0, released |-> 0]

\* The goroutine started for loop variable k (lines 202-207): its arguments are
\* evaluated at the go statement.
NewUnit(k) ==
  LET imageIndex == ImageIndex(k, Len(images)) IN
  [pc |-> "spawned", requestNum |-> k,
   imageData |-> images[imageIndex + 1], imageName |-> imageNames[imageIndex + 1],
   result |-> NoResult, duration |-> 0, loaded |-> 0,
   addSuccessCalls |-> 0, addFailureCalls |-> 0, released |-> 0]

\* main, lines 200-208: start the goroutine and step the loop variable.
MainSpawn ==
  /\ mainPc = "spawn"
  /\ units' = Append(units, NewUnit(i))
  /\ i' = i + 1
  /\ mainPc' = "loop"
  /\ UNCHANGED <<durationsPassed, totalRequests,
                 concurrentRequests, initialMemory, finalMemory,
                 memoryDifference, images, imageNames, successCount, failureCount,
                 totalTime, mutex, wg, semaphore, requestsSent, reportLines, meanTime>>

\* Mutant: wg.Wait does not wait.
WaitPassesAlways(counter) == TRUE

\* wg.Wait returns when the counter is zero.
WaitPasses(counter) == counter = 0

\* main, line 210: wg.Wait().
MainWait ==
  /\ mainPc = "wait"
  /\ WaitPasses(wg)
  /\ mainPc' = "finalMemory"
  /\ UNCHANGED <<durationsPassed, totalRequests,
                 concurrentRequests, i, initialMemory, finalMemory,
                 memoryDifference, images, imageNames, successCount, failureCount,
                 totalTime, mutex, wg, semaphore, units, requestsSent, reportLines,
                 meanTime>>

\* Mutant: a failed final sample still prints the request statistics.
MainFinalMemoryPartialReport ==
  /\ mainPc = "finalMemory"
  /\ \E r \in MemResults :
       IF r.err
       THEN /\ mainPc' = "abortFinalMemory"
            /\ reportLines' = 5
            /\ UNCHANGED <<finalMemory, memoryDifference>>
       ELSE /\ mainPc' = "report"
            /\ finalMemory' = r.usage
            /\ memoryDifference' = SubUint64(r.usage, initialMemory)
            /\ UNCHANGED reportLines
  /\ UNCHANGED <<durationsPassed, totalRequests,
                 concurrentRequests, i, initialMemory, images,
                 imageNames, successCount, failureCount, totalTime, mutex, wg,
                 semaphore, units, requestsSent, meanTime>>

\* main, lines 213-219: the final memory sample and the memory difference.
MainFinalMemory ==
  /\ mainPc = "finalMemory"
  /\ \E r \in MemResults :
       IF r.err
       THEN /\ mainPc' = "abortFinalMemory"
            /\ UNCHANGED <<finalMemory, memoryDifference>>
       ELSE /\ mainPc' = "report"
            /\ finalMemory' = r.usage
            /\ memoryDifference' = SubUint64(r.usage, initialMemory)
  /\ UNCHANGED <<durationsPassed, totalRequests,
                 concurrentRequests, i, initialMemory, images,
                 imageNames, successCount, failureCount, totalTime, mutex, wg,
                 semaphore, units, requestsSent, reportLines, meanTime>>

\* Lines printed before the mean is computed (221-225), and by a full report.
LinesBeforeMean == 5
LinesFullReport == 11

\* Integer division of line 226 panics on a zero divisor.
DivisionPanics(divisor) == divisor = 0

\* main, lines 221-232: the report.
MainReport ==
  /\ mainPc = "report"
  /\ IF DivisionPanics(successCount)
     THEN /\ mainPc' = "panic"
          /\ reportLines' = LinesBeforeMean
          /\ UNCHANGED meanTime
     ELSE /\ mainPc' = "done"
          /\ reportLines' = LinesFullReport
          /\ meanTime' = totalTime \div successCount
  /\ UNCHANGED <<durationsPassed, totalRequests,
                 concurrentRequests, i, initialMemory, finalMemory,
                 memoryDifference, images, imageNames, successCount, failureCount,
                 totalTime, mutex, wg, semaphore, units, requestsSent>>

\* --------------------------------------------------------------- workers
\* Mutant: a non-200 response is logged but not recorded.
ReportedDropsStatus(path, status) ==
  IF path \in {"formFileErr", "writeErr", "newRequestErr", "doErr"} THEN "addFailure"
  ELSE IF status = StatusOK THEN "addSuccess"
  ELSE "none"

\* Mutant: a transport error is logged but not recorded.
ReportedDropsTransport(path, status) ==
  IF path \in {"formFileErr", "writeErr", "newRequestErr"} THEN "addFailure"
  ELSE IF path = "doErr" THEN "none"
  ELSE IF status = StatusOK THEN "addSuccess"
  ELSE "addFailure"

\* Mutant: every 2xx response counts as a success.
ReportedAny2xx(path, status) ==
  IF path \in {"formFileErr", "writeErr", "newRequestErr", "doErr"} THEN "addFailure"
  ELSE IF status >= 200 /\ status < 300 THEN "addSuccess"
  ELSE "addFailure"

\* makeRequest, lines 66-125: the aggregator call made on an exit path.
Reported(path, status) ==
  IF path = "formFileErr" THEN "addFailure"
  ELSE IF path = "writeErr" THEN "addFailure"
  ELSE IF path = "newRequestErr" THEN "addFailure"
  ELSE IF path = "doErr" THEN "addFailure"
  ELSE IF status = StatusOK THEN "addSuccess"
  ELSE "addFailure"

\* Whether client.Do is reached on an exit path (line 107).
Sends(path) == path \in {"doErr", "response"}

\* The goroutine as makeRequest calls the aggregator (duration is the argument
\* of addSuccess), or returns when it calls nothing.
Called(unit, call, duration) ==
  [unit EXCEPT
     !.pc = IF call \in {"addSuccess", "addFailure"} THEN call ELSE "return",
     !.duration = IF call = "addSuccess" THEN duration ELSE 0,
     !.addSuccessCalls = @ + (IF call = "addSuccess" THEN 1 ELSE 0),
     !.addFailureCalls = @ + (IF call = "addFailure" THEN 1 ELSE 0)]

\* The results one run of makeRequest may meet: the exit path, and on the
\* response path the status code and the measured duration.
Attempts ==
  {[path |-> p, status |-> 0, duration |-> 0] : p \in ExitPaths \ {"response"}}
  \cup {[path |-> "response", status |-> st, duration |-> d] :
          st \in Statuses, d \in Durations}

\* The goroutine with the result its makeRequest has met: whether err is set
\* (lines 66, 73, 81, 107) and resp.StatusCode.
Met(unit, a) ==
  [unit EXCEPT !.result = [err |-> a.path # "response", status |-> a.status]]

\* The results met before client.Do is called, and those client.Do returns.
SetupAttempts == {a \in Attempts : ~ Sends(a.path)}
Responses == {a \in Attempts : Sends(a.path)}

\* makeRequest, lines 63-107 up to the call of client.Do: build the body and
\* the request; a failure on the way is reported to addFailure, otherwise the
\* request is sent and the goroutine waits in client.Do.
Execute(u) ==
  /\ Alive
  /\ Unit(u).pc = "spawned"
  /\ \/ /\ \E a \in SetupAttempts :
            units' = [units EXCEPT
                        ![u] = Met(Called(@, Reported(a.path, a.status), a.duration),
                                   a)]
        /\ UNCHANGED requestsSent
     \/ /\ units' = SetPc(u, "inFlight")
        /\ requestsSent' = requestsSent + 1
  /\ UNCHANGED <<durationsPassed, totalRequests,
                 concurrentRequests, mainPc, i, initialMemory,
                 finalMemory, memoryDifference, images, imageNames, successCount,
                 failureCount, totalTime, mutex, wg, semaphore, reportLines, meanTime>>

\* makeRequest, lines 107-125 up to the call of addSuccess or addFailure:
\* client.Do returns (an error, the 30 s timeout included, or a response) and
\* the result is classified.
Respond(u) ==
  /\ Alive
  /\ Unit(u).pc = "inFlight"
  /\ \E a \in Responses :
       /\ units' = [units EXCEPT
                      ![u] = Met(Called(@, Reported(a.path, a.status), a.duration),
                                 a)]
       /\ durationsPassed' = durationsPassed + units'[u].duration
  /\ UNCHANGED <<totalRequests,
                 concurrentRequests, mainPc, i, initialMemory,
                 finalMemory, memoryDifference, images, imageNames, successCount,
                 failureCount, totalTime, mutex, wg, semaphore, requestsSent,
                 reportLines, meanTime>>

\* Mutant: the lock is not taken (no mutual exclusion).
CanLockAlways(m) == TRUE

\* sync.Mutex.Lock proceeds when the mutex is unlocked.
CanLock(m) == ~ m

\* addSuccess line 26, addFailure line 33: stats.mutex.Lock().
Lock(u) ==
  /\ Alive
  /\ Unit(u).pc \in {"addSuccess", "addFailure"}
  /\ CanLock(mutex)
  /\ mutex' = TRUE
  /\ units' = SetPc(u, IF Unit(u).pc = "addSuccess" THEN "succLocked" ELSE "failLocked")
  /\ UNCHANGED <<durationsPassed, totalRequests,
                 concurrentRequests, mainPc, i, initialMemory,
                 finalMemory, memoryDifference, images, imageNames, successCount,
                 failureCount, totalTime, wg, semaphore, requestsSent, reportLines,
                 meanTime>>

\* Mutant: the update is lost.
IncrementLost(count) == count

\* Mutant: the outcome is counted twice.
IncrementedTwice(count) == count + 2

\* The increment of lines 28 and 35.
Incremented(count) == count + 1

\* addSuccess, line 28: stats.successCount++ reads the counter.
LoadSuccess(u) ==
  /\ Alive
  /\ Unit(u).pc = "succLocked"
  /\ units' = [units EXCEPT ![u].pc = "succLoaded", ![u].loaded = successCount]
  /\ UNCHANGED <<durationsPassed, totalRequests,
                 concurrentRequests, mainPc, i, initialMemory,
                 finalMemory, memoryDifference, images, imageNames, successCount,
                 failureCount, totalTime, mutex, wg, semaphore, requestsSent,
                 reportLines, meanTime>>

\* addSuccess, line 28: stats.successCount++ writes the counter.
CountSuccess(u) ==
  /\ Alive
  /\ Unit(u).pc = "succLoaded"
  /\ successCount' = Incremented(Unit(u).loaded)
  /\ units' = [units EXCEPT ![u].pc = "succCounted", ![u].loaded = 0]
  /\ UNCHANGED <<durationsPassed, totalRequests,
                 concurrentRequests, mainPc, i, initialMemory,
                 finalMemory, memoryDifference, images, imageNames, failureCount,
                 totalTime, mutex, wg, semaphore, requestsSent, reportLines, meanTime>>

\* addSuccess, line 29: stats.totalTime += duration reads the total.
LoadTime(u) ==
  /\ Alive
  /\ Unit(u).pc = "succCounted"
  /\ units' = [units EXCEPT ![u].pc = "timeLoaded", ![u].loaded = totalTime]
  /\ UNCHANGED <<durationsPassed, totalRequests,
                 concurrentRequests, mainPc, i, initialMemory,
                 finalMemory, memoryDifference, images, imageNames, successCount,
                 failureCount, totalTime, mutex, wg, semaphore, requestsSent,
                 reportLines, meanTime>>

\* addSuccess, line 29: stats.totalTime += duration writes the total.
AddTime(u) ==
  /\ Alive
  /\ Unit(u).pc = "timeLoaded"
  /\ totalTime' = Unit(u).loaded + Unit(u).duration
  /\ units' = [units EXCEPT ![u].pc = "unlock", ![u].loaded = 0]
  /\ UNCHANGED <<durationsPassed, totalRequests,
                 concurrentRequests, mainPc, i, initialMemory,
                 finalMemory, memoryDifference, images, imageNames, successCount,
                 failureCount, mutex, wg, semaphore, requestsSent, reportLines,
                 meanTime>>

\* addFailure, line 35: stats.failureCount++ reads the counter.
LoadFailure(u) ==
  /\ Alive
  /\ Unit(u).pc = "failLocked"
  /\ units' = [units EXCEPT ![u].pc = "failLoaded", ![u].loaded = failureCount]
  /\ UNCHANGED <<durationsPassed, totalRequests,
                 concurrentRequests, mainPc, i, initialMemory,
                 finalMemory, memoryDifference, images, imageNames, successCount,
                 failureCount, totalTime, mutex, wg, semaphore, requestsSent,
                 reportLines, meanTime>>

\* addFailure, line 35: stats.failureCount++ writes the counter.
CountFailure(u) ==
  /\ Alive
  /\ Unit(u).pc = "failLoaded"
  /\ failureCount' = Incremented(Unit(u).loaded)
  /\ units' = [units EXCEPT ![u].pc = "unlock", ![u].loaded = 0]
  /\ UNCHANGED <<durationsPassed, totalRequests,
                 concurrentRequests, mainPc, i, initialMemory,
                 finalMemory, memoryDifference, images, imageNames, successCount,
                 totalTime, mutex, wg, semaphore, requestsSent, reportLines, meanTime>>

\* Mutant: the mutex is not unlocked on return.
UnlockForgotten(u) ==
  /\ Alive
  /\ Unit(u).pc = "unlock"
  /\ units' = SetPc(u, "return")
  /\ UNCHANGED <<durationsPassed, totalRequests,
                 concurrentRequests, mainPc, i, initialMemory,
                 finalMemory, memoryDifference, images, imageNames, successCount,
                 failureCount, totalTime, mutex, wg, semaphore, requestsSent,
                 reportLines, meanTime>>

\* addSuccess line 27, addFailure line 34: the deferred stats.mutex.Unlock().
Unlock(u) ==
  /\ Alive
  /\ Unit(u).pc = "unlock"
  /\ mutex' = FALSE
  /\ units' = SetPc(u, "return")
  /\ UNCHANGED <<durationsPassed, totalRequests,
                 concurrentRequests, mainPc, i, initialMemory,
                 finalMemory, memoryDifference, images, imageNames, successCount,
                 failureCount, totalTime, wg, semaphore, requestsSent, reportLines,
                 meanTime>>

\* Mutant: the goroutine goes on to release its permit without sleeping.
DoneSkipsSleep(u) ==
  /\ Alive
  /\ Unit(u).pc = "return"
  /\ wg' = wg - 1
  /\ units' = [units EXCEPT ![u].pc = "release", ![u].duration = 0,
                              ![u].result = NoResult]
  /\ UNCHANGED <<durationsPassed, totalRequests,
                 concurrentRequests, mainPc, i, initialMemory,
                 finalMemory, memoryDifference, images, imageNames, successCount,
                 failureCount, totalTime, mutex, semaphore, requestsSent, reportLines,
                 meanTime>>

\* makeRequest, line 61: the deferred wg.Done() as makeRequest returns; its
\* locals go out of scope.
Done(u) ==
  /\ Alive
  /\ Unit(u).pc = "return"
  /\ wg' = wg - 1
  /\ units' = [units EXCEPT ![u].pc = "sleep", ![u].duration = 0,
                              ![u].result = NoResult]
  /\ UNCHANGED <<durationsPassed, totalRequests,
                 concurrentRequests, mainPc, i, initialMemory,
                 finalMemory, memoryDifference, images, imageNames, successCount,
                 failureCount, totalTime, mutex, semaphore, requestsSent, reportLines,
                 meanTime>>

\* Line 206: time.Sleep(20 * time.Millisecond) ends.
SleepEnds(u) ==
  /\ Alive
  /\ Unit(u).pc = "sleep"
  /\ units' = SetPc(u, "release")
  /\ UNCHANGED <<durationsPassed, totalRequests,
                 concurrentRequests, mainPc, i, initialMemory,
                 finalMemory, memoryDifference, images, imageNames, successCount,
                 failureCount, totalTime, mutex, wg, semaphore, requestsSent,
                 reportLines, meanTime>>

\* Line 203: the deferred <-semaphore.
Release(u) ==
  /\ Alive
  /\ Unit(u).pc = "release"
  /\ semaphore > 0
  /\ semaphore' = semaphore - 1
  /\ units' = [units EXCEPT ![u].pc = "finished", ![u].released = @ + 1]
  /\ UNCHANGED <<durationsPassed, totalRequests,
                 concurrentRequests, mainPc, i, initialMemory,
                 finalMemory, memoryDifference, images, imageNames, successCount,
                 failureCount, totalTime, mutex, wg, requestsSent, reportLines,
                 meanTime>>

Next ==
  \/ MainInitialMemory
  \/ MainLoad
  \/ MainLoop
  \/ MainAcquire
  \/ MainSpawn
  \/ MainWait
  \/ MainFinalMemory
  \/ MainReport
  \/ \E u \in UnitIds : Execute(u)
  \/ \E u \in UnitIds : Respond(u)
  \/ \E u \in UnitIds : Lock(u)
  \/ \E u \in UnitIds : LoadSuccess(u)
  \/ \E u \in UnitIds : CountSuccess(u)
  \/ \E u \in UnitIds : LoadTime(u)
  \/ \E u \in UnitIds : AddTime(u)
  \/ \E u \in UnitIds : LoadFailure(u)
  \/ \E u \in UnitIds : CountFailure(u)
  \/ \E u \in UnitIds : Unlock(u)
  \/ \E u \in UnitIds : Done(u)
  \/ \E u \in UnitIds : SleepEnds(u)
  \/ \E u \in UnitIds : Release(u)

Spec == Init /\ [][Next]_vars

\* The Go scheduler runs some goroutine that can take a step.
FairSpec == Spec /\ WF_vars(Next)

\* ------------------------------------------------------ memory delta runs
\* The end of main, lines 213-219, run on its own over samples that reach
\* every limb of a uint64: 0, 1, 2, 2^16 - 1, 2^16, 2^32 - 1, 2^32, 2^63 - 1,
\* 2^63, 2^63 + 1 and 2^64 - 1.
WideMemValues ==
  { U64(0), U64(1), U64(2), U64(LimbBase - 1),
    <<0, 1, 0, 0>>,
    <<LimbBase - 1, LimbBase - 1, 0, 0>>,
    <<0, 0, 1, 0>>,
    <<LimbBase - 1, LimbBase - 1, LimbBase - 1, LimbBase \div 2 - 1>>,
    <<0, 0, 0, LimbBase \div 2>>,
    <<1, 0, 0, LimbBase \div 2>>,
    <<LimbBase - 1, LimbBase - 1, LimbBase - 1, LimbBase - 1>> }
WideMemResults ==
  {[usage |-> U64Zero, err |-> TRUE]}
  \cup {[usage |-> m, err |-> FALSE] : m \in WideMemValues}

InitMemory ==
  /\ totalRequests = 0
  /\ concurrentRequests = 1
  /\ mainPc = "finalMemory"
  /\ i = 0
  /\ initialMemory \in WideMemValues
  /\ finalMemory = U64Zero
  /\ memoryDifference = U64Zero
  /\ images = <<>>
  /\ imageNames = <<>>
  /\ successCount = 0
  /\ failureCount = 0
  /\ totalTime = 0
  /\ mutex = FALSE
  /\ wg = 0
  /\ semaphore = 0
  /\ units = <<>>
  /\ requestsSent = 0
  /\ reportLines = 0
  /\ meanTime = 0
  /\ durationsPassed = 0

\* main, lines 213-219: the final sample and the memory difference.
MemoryDifference ==
  /\ mainPc = "finalMemory"
  /\ \E r \in WideMemResults :
       IF r.err
       THEN /\ mainPc' = "abortFinalMemory"
            /\ UNCHANGED <<finalMemory, memoryDifference>>
       ELSE /\ mainPc' = "report"
            /\ finalMemory' = r.usage
            /\ memoryDifference' = SubUint64(r.usage, initialMemory)
  /\ UNCHANGED <<durationsPassed, totalRequests,
                 concurrentRequests, i, initialMemory, images,
                 imageNames, successCount, failureCount, totalTime, mutex, wg,
                 semaphore, units, requestsSent, reportLines, meanTime>>

NextMemory == MemoryDifference

SpecMemory == InitMemory /\ [][NextMemory]_vars

\* ------------------------------------------------------------ properties
\* main has passed wg.Wait (line 210).
AfterWaitPcs == {"finalMemory", "abortFinalMemory", "report", "done", "panic"}
\* main has left the launcher loop.
AfterLoopPcs == AfterWaitPcs \cup {"wait"}
\* The goroutine has returned from makeRequest.
AfterMakeRequestPcs == {"sleep", "release", "finished"}

UnitsAt(pcs) == {u \in UnitIds : Unit(u).pc \in pcs}
\* Permits acquired and not yet released: by goroutines, and by the launcher
\* for the goroutine it is about to start.
PermitsHeld ==
  Cardinality(UnitsAt(HoldingPcs)) + (IF mainPc = "spawn" THEN 1 ELSE 0)
Calls(u) == Unit(u).addSuccessCalls + Unit(u).addFailureCalls

\* C1: for concurrentRequests >= 1, once main has passed wg.Wait,
\* successCount + failureCount equals totalRequests.
C1_AllCountedAtReturn ==
  (concurrentRequests >= 1 /\ mainPc \in AfterWaitPcs)
    => successCount + failureCount = totalRequests

C1_Witness ==
  /\ mainPc = "finalMemory"
  /\ concurrentRequests >= 2
  /\ totalRequests >= 3
  /\ successCount >= 1
  /\ failureCount >= 1

\* C2: the number of permits acquired and not yet released never exceeds
\* concurrentRequests; a goroutine in its pacing delay counts.
C2_PermitsBounded ==
  /\ PermitsHeld <= concurrentRequests
  /\ semaphore = PermitsHeld

C2_Witness ==
  /\ concurrentRequests >= 2
  /\ PermitsHeld = concurrentRequests
  /\ mainPc = "acquire"
  /\ \E u \in UnitIds : Unit(u).pc = "sleep"
  /\ \E u \in UnitIds : Unit(u).pc \in InMakeRequestPcs

\* C3 (as claimed): in the state where wg.Wait is passed no goroutine is still
\* sleeping and no permit is still held.
C3_ReturnsAfterFullLifecycle ==
  mainPc = "finalMemory" =>
    /\ \A u \in UnitIds : Unit(u).pc = "finished"
    /\ semaphore = 0

\* C3 (amended): once wg.Wait is passed every one of the totalRequests
\* goroutines has been started and has returned from makeRequest, its outcome
\* recorded; it may still be in its pacing delay, holding its permit.
C3_ReturnsAfterMakeRequest ==
  mainPc \in AfterWaitPcs =>
    /\ Len(units) = totalRequests
    /\ \A u \in UnitIds : Unit(u).pc \in AfterMakeRequestPcs /\ Calls(u) = 1

C3_Witness ==
  /\ mainPc = "finalMemory"
  /\ totalRequests >= 2
  /\ \E u \in UnitIds : Unit(u).pc = "sleep"
  /\ semaphore >= 1

\* C4: successCount + failureCount never exceeds totalRequests.
C4_CountsBounded == successCount + failureCount <= totalRequests

C4_Witness ==
  /\ totalRequests >= 2
  /\ successCount + failureCount = totalRequests
  /\ successCount >= 1
  /\ failureCount >= 1
  /\ mainPc = "wait"
  /\ \E u \in UnitIds : Unit(u).pc = "unlock"

\* C5: a goroutine that has not yet reached the aggregator has called neither
\* addSuccess nor addFailure; from its call on, whatever the exit path, it has
\* called exactly one of them exactly once.
C5_OneOutcomePerUnit ==
  \A u \in UnitIds :
    /\ Unit(u).pc \in {"spawned", "inFlight"} => Calls(u) = 0
    /\ Unit(u).pc \notin {"spawned", "inFlight"} => Calls(u) = 1
    /\ Unit(u).pc \in {"addSuccess", "succLocked", "succLoaded", "succCounted",
                        "timeLoaded"}
         => Unit(u).addSuccessCalls = 1
    /\ Unit(u).pc \in {"addFailure", "failLocked", "failLoaded"}
         => Unit(u).addFailureCalls = 1

C5_Witness ==
  /\ \E u \in UnitIds : Unit(u).pc = "return" /\ Unit(u).addFailureCalls = 1
                        /\ Unit(u).addSuccessCalls = 0
  /\ \E u \in UnitIds : Unit(u).pc = "return" /\ Unit(u).addSuccessCalls = 1
                        /\ Unit(u).addFailureCalls = 0

\* C6: the goroutines started carry the requestNum values 0, 1, 2, ... in
\* order, never more than totalRequests of them, and once the loop is left
\* exactly totalRequests of them.
C6_LaunchesEachRequestOnce ==
  /\ Len(units) <= totalRequests
  /\ \A u \in UnitIds : Unit(u).requestNum = u - 1
  /\ mainPc \in AfterLoopPcs => Len(units) = totalRequests

C6_Witness ==
  /\ mainPc = "wait"
  /\ totalRequests >= 3
  /\ Len(units) = totalRequests

\* The corpus is only written by the loader.
CorpusFrozen ==
  mainPc \notin {"initialMemory", "load"}
    => (images' = images /\ imageNames' = imageNames)

\* C7: every goroutine is given the payload and the name of corpus element
\* requestNum mod len(corpus); for a corpus of 3 and 7 requests the indices are
\* 0,1,2,0,1,2,0; the dispatch never modifies the corpus.
C7_UnitsUseCyclicIndex ==
  /\ \A u \in UnitIds :
       LET idx == Unit(u).requestNum % Len(images) IN
       /\ Unit(u).imageData = images[idx + 1]
       /\ Unit(u).imageName = imageNames[idx + 1]
  /\ [k \in 0..6 |-> ImageIndex(k, 3)] = [k \in 0..6 |-> <<0, 1, 2, 0, 1, 2, 0>>[k + 1]]
  /\ Len(images) = Len(imageNames)

C7_CyclicCorpus == [] C7_UnitsUseCyclicIndex /\ [][CorpusFrozen]_vars

C7_Witness ==
  /\ Len(images) = 2
  /\ Len(units) >= 3
  /\ Unit(3).imageData = images[1]
  /\ Unit(3).imageName = imageNames[1]
  /\ Unit(2).imageData = images[2]
  /\ images[1] # images[2]

\* C8: with totalRequests = 0 no permit is acquired, no goroutine is started,
\* no request is sent, main never blocks at wg.Wait and the stats stay zero.
C8_ZeroRequests ==
  totalRequests = 0 =>
    /\ semaphore = 0 /\ units = <<>> /\ requestsSent = 0
    /\ mainPc \notin {"acquire", "spawn"}
    /\ mainPc = "wait" => ENABLED MainWait
    /\ successCount = 0 /\ failureCount = 0 /\ totalTime = 0

C8_Witness ==
  /\ totalRequests = 0
  /\ mainPc = "finalMemory"
  /\ concurrentRequests >= 1

\* C9 (as claimed): when every request has failed, so that successCount = 0 and
\* failureCount = totalRequests at report time, the report does not crash on
\* the division of line 226.
C9_ReportDoesNotCrash ==
  ~ (mainPc = "panic" /\ successCount = 0
       /\ failureCount = totalRequests /\ totalRequests >= 1)

\* Outcomes recorded: the goroutines past their increment.
RecordedFailures ==
  {u \in UnitIds : Unit(u).addFailureCalls = 1
                   /\ Unit(u).pc \in AfterMakeRequestPcs \cup {"unlock", "return"}}
RecordedSuccesses ==
  {u \in UnitIds : Unit(u).addSuccessCalls = 1
                   /\ Unit(u).pc \in AfterMakeRequestPcs
                                     \cup {"succCounted", "timeLoaded", "unlock",
                                           "return"}}

\* C10: every failure is recorded by addFailure and changes nothing else: the
\* counters are exactly the numbers of goroutines that failed and that
\* succeeded, wg.Wait is not held up once every goroutine has left makeRequest,
\* and once wg.Wait is passed every requestNum has been started and counted.
C10_FailuresContained ==
  /\ failureCount = Cardinality(RecordedFailures)
  /\ successCount = Cardinality(RecordedSuccesses)
  /\ (mainPc = "wait" /\ \A u \in UnitIds : Unit(u).pc \in AfterMakeRequestPcs)
       => ENABLED MainWait
  /\ mainPc \in AfterWaitPcs =>
       /\ Len(units) = totalRequests
       /\ \A u \in UnitIds : Calls(u) = 1
       /\ failureCount + successCount = totalRequests

C10_Witness ==
  /\ mainPc = "finalMemory"
  /\ Len(units) >= 3
  /\ Unit(1).addFailureCalls = 1
  /\ Unit(2).addSuccessCalls = 1
  /\ Unit(3).addFailureCalls = 1
  /\ failureCount = 2
  /\ successCount = 1

\* The result met is a response with status 200.
MetOk(u) == ~ Unit(u).result.err /\ Unit(u).result.status = 200
\* Positions in makeRequest after the result is classified.
ClassifiedPcs == InMakeRequestPcs \ {"spawned", "inFlight"}

\* C11: a result is reported by addSuccess exactly when it is a response with
\* status 200, and by addFailure in every other case (another 2xx, a transport
\* error, a construction error); equal (path, status) pairs are classified
\* alike whatever the requestNum and whatever the stats and the other
\* goroutines are doing; only a success carries a duration to totalTime.
C11_ClassificationFixed ==
  \A u \in UnitIds :
    /\ Unit(u).pc \in {"spawned", "inFlight"} => Unit(u).result = NoResult
    /\ Unit(u).pc \in ClassifiedPcs =>
         /\ Unit(u).result.err => Unit(u).result.status = 0
         /\ ~ Unit(u).result.err => Unit(u).result.status \in Statuses
         /\ Unit(u).addSuccessCalls = (IF MetOk(u) THEN 1 ELSE 0)
         /\ Unit(u).addFailureCalls = (IF MetOk(u) THEN 0 ELSE 1)
         /\ Unit(u).duration \in (IF MetOk(u) THEN Durations ELSE {0})
         /\ Unit(u).pc \in {"addSuccess", "succLocked", "succLoaded", "succCounted",
                            "timeLoaded"} => MetOk(u)
         /\ Unit(u).pc \in {"addFailure", "failLocked", "failLoaded"} => ~ MetOk(u)
         /\ \A v \in UnitsAt(ClassifiedPcs) :
              Unit(v).result = Unit(u).result =>
                /\ Unit(v).addSuccessCalls = Unit(u).addSuccessCalls
                /\ Unit(v).addFailureCalls = Unit(u).addFailureCalls

C11_Witness ==
  /\ Len(units) = 3
  /\ successCount = 1 /\ failureCount = 0
  /\ Unit(2).pc = "addFailure"
  /\ Unit(2).result = [err |-> FALSE, status |-> 201]
  /\ Unit(3).pc = "addSuccess"
  /\ Unit(3).result = [err |-> FALSE, status |-> 200]

\* C12: under fair scheduling and with concurrentRequests >= 1, once the
\* launcher loop is entered main eventually passes wg.Wait, with every one of
\* the totalRequests goroutines started and its request executed and recorded.
C12_DispatchReturns ==
  (mainPc = "loop" /\ concurrentRequests >= 1)
    ~> (/\ mainPc \in AfterWaitPcs
        /\ Len(units) = totalRequests
        /\ \A u \in UnitIds : Calls(u) = 1 /\ Unit(u).pc \in AfterMakeRequestPcs)

C12_Witness ==
  /\ concurrentRequests >= 2
  /\ mainPc = "acquire"
  /\ semaphore = concurrentRequests
  /\ Len(units) < totalRequests
  /\ mutex
  /\ \E u \in UnitIds : Unit(u).pc \in {"addSuccess", "addFailure"}

\* Goroutines that have called addSuccess or addFailure and not yet returned.
InAggregatorPcs == {"addSuccess", "addFailure"} \cup LockedPcs

\* C13: at most one goroutine is between Lock and Unlock, and the mutex is
\* locked exactly then; whenever no call of addSuccess or addFailure is in
\* progress, successCount and failureCount are the numbers of calls made and
\* totalTime is the sum of the durations passed to addSuccess.
C13_NoLostUpdates ==
  /\ Cardinality(UnitsAt(LockedPcs)) <= 1
  /\ mutex <=> (Cardinality(UnitsAt(LockedPcs)) = 1)
  /\ \A u \in UnitsAt(LockedPcs \ {"succLocked", "failLocked", "unlock"}) :
       Unit(u).loaded = (IF Unit(u).pc = "succLoaded" THEN successCount
                         ELSE IF Unit(u).pc = "failLoaded" THEN failureCount
                         ELSE IF Unit(u).pc = "timeLoaded" THEN totalTime
                         ELSE 0)
  /\ UnitsAt(InAggregatorPcs) = {} =>
       /\ successCount = Cardinality({u \in UnitIds : Unit(u).addSuccessCalls = 1})
       /\ failureCount = Cardinality({u \in UnitIds : Unit(u).addFailureCalls = 1})
       /\ totalTime = durationsPassed

C13_Witness ==
  /\ concurrentRequests >= 2
  /\ UnitsAt(InAggregatorPcs) = {}
  /\ successCount = 2
  /\ failureCount = 1
  /\ totalTime = 3
  /\ Cardinality(UnitsAt({"return"})) >= 2

\* The name ends with the characters of suffix.
HasSuffix(name, suffix) ==
  /\ Len(name) >= Len(suffix)
  /\ SubSeq(name, Len(name) - Len(suffix) + 1, Len(name)) = suffix

\* The listing holds a readable regular file named *.jpg, *.jpeg or *.png.
HasEligibleFile(files) ==
  \E k \in 1..Len(files) :
    /\ ~ files[k].isDir
    /\ files[k].readable
    /\ \/ HasSuffix(files[k].name, <<".", "j", "p", "g">>)
       \/ HasSuffix(files[k].name, <<".", "j", "p", "e", "g">>)
       \/ HasSuffix(files[k].name, <<".", "p", "n", "g">>)

SetupAbortPcs == {"abortInitialMemory", "abortLoad"}

\* C14: the corpus loader fails exactly when the folder is unreadable or holds
\* no eligible file; after a failed initial memory sample or a failed load main
\* has ended with no permit acquired, no goroutine started, no request sent,
\* the stats untouched and nothing reported; the dispatch is only ever entered
\* with a memory sample taken and a non-empty corpus.
C14_SetupErrorAborts ==
  /\ mainPc = "load" =>
       \A f \in Folders :
         loadImagesFromFolder(f).err <=> (f.err \/ ~ HasEligibleFile(f.files))
  /\ mainPc \in SetupAbortPcs =>
       /\ semaphore = 0 /\ wg = 0 /\ units = <<>> /\ i = 0
       /\ requestsSent = 0
       /\ successCount = 0 /\ failureCount = 0 /\ totalTime = 0 /\ ~ mutex
       /\ reportLines = 0
  /\ mainPc \notin SetupAbortPcs \cup {"initialMemory", "load", "classify"} =>
       /\ Len(images) >= 1
       /\ initialMemory \in InitialMemValues

C14_Witness ==
  /\ mainPc = "abortLoad"
  /\ initialMemory \in InitialMemValues
  /\ totalRequests >= 1
  /\ concurrentRequests >= 1

\* The state part of C15.
C15_LifecycleState ==
  /\ \A u \in UnitIds :
       /\ Unit(u).released = (IF Unit(u).pc = "finished" THEN 1 ELSE 0)
       /\ Unit(u).pc \in AfterMakeRequestPcs =>
            u \in RecordedSuccesses \cup RecordedFailures
  /\ semaphore = Cardinality({u \in UnitIds : Unit(u).released = 0})
                   + (IF mainPc = "spawn" THEN 1 ELSE 0)
  /\ (Len(units) = totalRequests /\ \A u \in UnitIds : Unit(u).pc = "finished")
       => semaphore = 0

\* The step part of C15: a goroutine starts its pacing delay as makeRequest
\* returns, reaches its release only from the delay, and releases only there,
\* taking one element from the channel.
C15_LifecycleStep ==
  \A u \in UnitIds :
    /\ (units'[u].pc = "sleep" /\ Unit(u).pc # "sleep") => Unit(u).pc = "return"
    /\ (units'[u].pc = "release" /\ Unit(u).pc # "release") => Unit(u).pc = "sleep"
    /\ (units'[u].pc = "finished" /\ Unit(u).pc # "finished")
         => Unit(u).pc = "release" /\ semaphore' = semaphore - 1
    /\ units'[u].released # Unit(u).released => Unit(u).pc = "release"

\* C15 (as claimed): every goroutine releases its permit exactly once: when
\* the run has ended, every goroutine started has released.
C15_ReleasedExactlyOnce ==
  mainPc \in {"done", "panic", "abortFinalMemory"}
    => \A u \in UnitIds : Unit(u).released = 1

\* C15 (amended): every goroutine runs permit acquired -> request executed and
\* outcome recorded -> pacing delay -> permit released; it releases at most
\* once, on every outcome, never before its delay has ended or its outcome is
\* recorded, and has released exactly once when it has finished; when all
\* totalRequests goroutines have finished the channel is empty.
C15_UnitLifecycle == [] C15_LifecycleState /\ [][C15_LifecycleStep]_vars

C15_Witness ==
  /\ totalRequests >= 3
  /\ Len(units) = totalRequests
  /\ \A u \in UnitIds : Unit(u).pc = "finished" /\ Unit(u).released = 1
  /\ semaphore = 0
  /\ successCount >= 1
  /\ failureCount >= 1
  /\ mainPc = "finalMemory"

\* The state part of C16.
C16_JoinState ==
  /\ wg = Cardinality(UnitsAt(InMakeRequestPcs))
            + (IF mainPc \in {"acquire", "spawn"} THEN 1 ELSE 0)
  /\ mainPc \in AfterWaitPcs =>
       /\ Len(units) = totalRequests
       /\ UnitsAt(InMakeRequestPcs) = {}
       /\ ~ mutex

\* The step part of C16: nothing writes the stats once wg.Wait is passed.
C16_StatsFrozen ==
  mainPc \in AfterWaitPcs =>
    /\ successCount' = successCount
    /\ failureCount' = failureCount
    /\ totalTime' = totalTime

\* C16: the WaitGroup counter is raised for a goroutine before it is started
\* and lowered only after its addSuccess or addFailure has returned, so when
\* main passes wg.Wait every goroutine has been started and has finished its
\* aggregator call, and the stats do not change from then on, through the
\* report's reads.
C16_StatsReadAfterWriters == [] C16_JoinState /\ [][C16_StatsFrozen]_vars

C16_Witness ==
  /\ mainPc = "done"
  /\ totalRequests >= 3
  /\ successCount >= 1
  /\ failureCount >= 1
  /\ meanTime >= 1
  /\ \E u \in UnitIds : Unit(u).pc = "sleep"

FinalSampleTakenPcs == {"report", "done", "panic"}

\* The state part of C17.
C17_BracketState ==
  /\ (requestsSent > 0 \/ units # <<>>) => initialMemory \in InitialMemValues
  /\ mainPc \in {"initialMemory", "abortInitialMemory"} =>
       (requestsSent = 0 /\ units = <<>>)
  /\ finalMemory # U64Zero => mainPc \in FinalSampleTakenPcs
  /\ mainPc \in FinalSampleTakenPcs \cup {"abortFinalMemory"} =>
       /\ successCount + failureCount = totalRequests
       /\ \A u \in UnitIds : u \in RecordedSuccesses \cup RecordedFailures
  /\ mainPc = "abortFinalMemory" =>
       /\ reportLines = 0 /\ meanTime = 0
       /\ memoryDifference = U64Zero
       /\ successCount = Cardinality(RecordedSuccesses)
       /\ failureCount = Cardinality(RecordedFailures)
       /\ totalTime = durationsPassed

\* The step part of C17: the final sample, failed or not, leaves the stats as
\* they are.
C17_SampleKeepsStats ==
  mainPc = "finalMemory" =>
    /\ successCount' = successCount
    /\ failureCount' = failureCount
    /\ totalTime' = totalTime

\* C17: the initial sample is taken before any goroutine is started or any
\* request sent, the final one only after all totalRequests outcomes are
\* recorded; a failed final sample ends main with no report line printed and
\* the stats as collected.
C17_SamplingBracketsDispatch == [] C17_BracketState /\ [][C17_SampleKeepsStats]_vars

C17_Witness ==
  /\ mainPc = "abortFinalMemory"
  /\ totalRequests >= 2
  /\ successCount >= 1
  /\ failureCount >= 1
  /\ totalTime >= 1
  /\ reportLines = 0

\* Goroutines started before goroutine u that have released their permit.
ReleasedBefore(u) == {v \in 1..(u - 1) : Unit(v).released = 1}

\* C18: goroutines are started in increasing requestNum order, each after the
\* launcher has acquired its permit: the goroutine with requestNum k >=
\* concurrentRequests exists only when at least k - concurrentRequests + 1
\* earlier ones have released, and the goroutines started and not yet released
\* never number more than concurrentRequests.
C18_LaunchBehindGate ==
  /\ \A u \in UnitIds :
       /\ Unit(u).requestNum = u - 1
       /\ Unit(u).requestNum >= concurrentRequests =>
            Cardinality(ReleasedBefore(u))
              >= Unit(u).requestNum - concurrentRequests + 1
  /\ Cardinality(UnitsAt(HoldingPcs)) <= concurrentRequests
  /\ mainPc = "spawn" =>
       /\ semaphore >= 1
       /\ Cardinality(UnitsAt(HoldingPcs)) <= concurrentRequests - 1
       /\ i = Len(units)

C18_Witness ==
  /\ concurrentRequests = 2
  /\ Len(units) = 3
  /\ Cardinality(ReleasedBefore(3)) = 1
  /\ Unit(3).pc = "spawned"
  /\ Cardinality(UnitsAt(HoldingPcs)) = 2

\* C19: with concurrentRequests = 0 and totalRequests >= 1 the launcher stops
\* at its first send for good: no step of the program is possible there, no
\* goroutine is ever started, no request sent, the stats stay zero and main
\* never reaches wg.Wait; with totalRequests = 0 main is not held up, at the
\* loop or at wg.Wait.
C19_ZeroCapacityBlocks ==
  /\ (concurrentRequests = 0 /\ totalRequests >= 1) =>
       /\ units = <<>> /\ requestsSent = 0 /\ semaphore = 0
       /\ successCount = 0 /\ failureCount = 0 /\ totalTime = 0
       /\ mainPc \notin AfterLoopPcs \cup {"spawn"}
       /\ mainPc = "acquire" => (wg = 1 /\ i = 0 /\ ~ ENABLED Next)
  /\ (concurrentRequests = 0 /\ totalRequests = 0) =>
       /\ mainPc \notin {"acquire", "spawn"}
       /\ mainPc = "loop" => ENABLED MainLoop
       /\ mainPc = "wait" => ENABLED MainWait

C19_Witness ==
  /\ concurrentRequests = 0
  /\ totalRequests >= 1
  /\ mainPc = "acquire"
  /\ wg = 1
  /\ Len(images) >= 1

\* a + b over the limbs, lowest first; the last element is the carry out of
\* the highest limb.
RECURSIVE AddLimbs(_, _, _, _)
AddLimbs(a, b, k, carry) ==
  IF k > Limbs THEN <<carry>>
  ELSE LET t == a[k] + b[k] + carry IN
    <<t % LimbBase>> \o AddLimbs(a, b, k + 1, t \div LimbBase)

IsUint64(a) ==
  /\ DOMAIN a = 1..Limbs
  /\ \A k \in 1..Limbs : a[k] \in 0..(LimbBase - 1)

\* C20: once the final sample is taken, memoryDifference is a uint64 with
\* memoryDifference + initialMemory = finalMemory modulo 2^64; the sum does not
\* carry when finalMemory >= initialMemory (the difference is the true growth)
\* and carries 2^64 when finalMemory < initialMemory (the difference is
\* 2^64 - (initialMemory - finalMemory), never a negative value).
C20_MemoryDifferenceWraps ==
  mainPc = "report" =>
    LET back == AddLimbs(memoryDifference, initialMemory, 1, 0) IN
      /\ IsUint64(memoryDifference)
      /\ SubSeq(back, 1, Limbs) = finalMemory
      /\ back[Limbs + 1] = (IF LessUint64(finalMemory, initialMemory) THEN 1 ELSE 0)
      /\ finalMemory = initialMemory => memoryDifference = U64Zero
      /\ (initialMemory = U64(2) /\ finalMemory = U64(1)) =>
           memoryDifference = [k \in 1..Limbs |-> LimbBase - 1]

C20_Witness ==
  /\ mainPc = "report"
  /\ initialMemory = <<0, 1, 0, 0>>
  /\ finalMemory = U64(1)
  /\ memoryDifference = <<1, LimbBase - 1, LimbBase - 1, LimbBase - 1>>

TypeOK ==
  /\ successCount \in Nat /\ failureCount \in Nat /\ wg \in Nat /\ semaphore \in Nat

====
